---------------------------- MODULE Spec2Model ----------------------------
(* FDS-Snake: the Game class of src/raspi/snake.py with its collaborators  *)
(* NameInputManager (functions/name.py), DataBase (functions/database.py)  *)
(* and update_arrow_directions (functions/directions.py).                  *)
(*                                                                         *)
(* The run loop is modelled event by event: BeginFrame opens one iteration *)
(* of Game.run / Game.handle_events, one action handles one event of the   *)
(* pygame queue, PollButton closes the iteration with the serial poll.     *)
(* SNAKE, FRUIT, read_button_input and shuffle_list live in files that are *)
(* not part of the sources at hand; they are modelled from the             *)
(* specification text and marked so in the model map.                      *)
EXTENDS Integers, Sequences, FiniteSets, TLC

VARIABLES
    game_state,                \* Game.game_state
    running,                   \* Game.running
    game_active,               \* module global written by the last game_over
    vectors,                   \* Game.vectors, slot -> direction
    directions,                \* functions.directions.directions (UI labels)
    body,                      \* SNAKE.body, head first
    direction,                 \* SNAKE.direction
    new_block,                 \* SNAKE growth pending for the next move
    fruit,                     \* FRUIT.position
    current_speed,             \* Game.current_speed (timer interval)
    new_direction,             \* Game.new_direction
    last_input_time,           \* Game.last_input_time
    active,                    \* NameInputManager.active
    player_name_chars,         \* NameInputManager.player_name_chars
    current_focus_index,       \* NameInputManager.current_focus_index
    current_score,             \* NameInputManager.current_score
    final_entered_name,        \* NameInputManager.final_entered_name
    nm_last_input_time,        \* NameInputManager.last_input_time
    db_cur,                    \* DataBase.cur is not None
    records,                   \* rows of table Highscores, in insertion order
    append_calls,              \* calls DataBase.append_team received
    clock,                     \* pygame.time.get_ticks() at the frame start
    current_time_ms,           \* local of handle_events
    processed_action_this_frame, \* local of handle_events
    pc,                        \* position of the run loop
    nEvents,                   \* events of this frame handled so far
    last,                      \* the event handled last and its outcome
    eaten,                     \* fruits eaten since the last reset (observer)
    accepted                   \* inputs accepted in this iteration (observer)

vars == <<game_state, running, game_active, vectors, directions, body,
          direction, new_block, fruit, current_speed, new_direction,
          last_input_time, active, player_name_chars, current_focus_index,
          current_score, final_entered_name, nm_last_input_time, db_cur,
          records, append_calls, clock, current_time_ms,
          processed_action_this_frame, pc, nEvents, last, eaten, accepted>>

gameVars == <<game_state, running, game_active, vectors, directions, body,
              direction, new_block, fruit, current_speed, new_direction,
              last_input_time>>

nmVars == <<active, player_name_chars, current_focus_index, current_score,
            final_entered_name, nm_last_input_time>>

dbVars == <<db_cur, records, append_calls>>

--------------------------------------------------------------------------
(* Bounds of the model *)

screen_width == 160
screen_height == 200
MaxTime == 60
StartClock == 30
MaxEvents == 2
MaxAppends == 2
MaxLen == 20

(* Program constants *)

cell_size == 40
base_speed == 140
min_speed == 75
speed_increment == 5
input_delay == 20
nm_input_delay == 20
name_length == 5
TopOffset == 9
MilestoneStep == 5

--------------------------------------------------------------------------
(* Values *)

cell_number_x == screen_width \div cell_size
cell_number_y == (screen_height - cell_size * 2) \div cell_size

Cells == (0 .. cell_number_x - 1) \X (0 .. cell_number_y - 1)

VLEFT == <<-1, 0>>
VDOWN == <<0, 1>>
VUP == <<0, -1>>
VRIGHT == <<1, 0>>
VZERO == <<0, 0>>

VAdd(a, b) == <<a[1] + b[1], a[2] + b[2]>>

start_vectors == <<VLEFT, VDOWN, VUP, VRIGHT>>

Keys == {"K_LEFT", "K_DOWN", "K_UP", "K_RIGHT", "K_RETURN", "K_ESCAPE", "K_a"}
Commands == {"LEFT", "DOWN", "UP", "RIGHT"}

FrameDt == {10, 20}
Skews == {0, 1}

Range(s) == {s[i] : i \in DOMAIN s}

Max(a, b) == IF a >= b THEN a ELSE b

allowed_chars ==
    <<"A", "B", "C", "D", "E", "F", "G", "H", "I", "J", "K", "L", "M",
      "N", "O", "P", "Q", "R", "S", "T", "U", "V", "W", "X", "Y", "Z",
      "1", "2", "3", "4", "5", "6", "7", "8", "9", "0">>

ok_button_index == name_length
num_focus_items == name_length + 1

DefaultName == [i \in 1 .. name_length |-> "A"]

(* str.find: the 0-based index of the first occurrence, -1 if absent *)
Find(s, c) ==
    IF \E i \in DOMAIN s : s[i] = c
    THEN (CHOOSE i \in DOMAIN s : s[i] = c /\ \A j \in 1 .. i - 1 : s[j] # c) - 1
    ELSE -1

(* Python list indexing with a 0-based index *)
At(s, i) == s[i + 1]

--------------------------------------------------------------------------
(* functions/directions.py *)

directions_vectors(v) ==
    CASE v = VUP -> "UP"
      [] v = VRIGHT -> "RIGHT"
      [] v = VDOWN -> "DOWN"
      [] v = VLEFT -> "LEFT"

update_arrow_directions_fallback(vs) == <<"LEFT", "DOWN", "UP", "RIGHT">>

update_arrow_directions(vs) ==
    IF \A i \in DOMAIN vs : vs[i] \in {VUP, VRIGHT, VDOWN, VLEFT}
    THEN [i \in DOMAIN vs |-> directions_vectors(vs[i])]
    ELSE <<"LEFT", "DOWN", "UP", "RIGHT">>

--------------------------------------------------------------------------
(* functions/utils.py, functions/body.py, functions/fruit.py,             *)
(* functions/controls.py                                                   *)

(* every outcome shuffle_list can return: the permutations of the list *)
shuffle_list(l) ==
    {[i \in DOMAIN l |-> l[p[i]]] : p \in Permutations(DOMAIN l)}

(* SNAKE(): three cells in a row, heading right *)
InitBody == << <<2, 1>>, <<1, 1>>, <<0, 1>> >>
InitDirection == VRIGHT

move_snake_keeps_tail(b, d, nb) == <<VAdd(b[1], d)>> \o b

(* SNAKE.move_snake: the new head is head + direction; the tail is dropped *)
(* unless a block is pending from add_block                                *)
move_snake(b, d, nb) ==
    IF nb
    THEN <<VAdd(b[1], d)>> \o b
    ELSE <<VAdd(b[1], d)>> \o SubSeq(b, 1, Len(b) - 1)

(* FRUIT.randomize: any cell of the grid *)
randomize == Cells

(* read_button_input: one of the four commands, or nothing *)
read_button_input == Commands \cup {"NONE"}

--------------------------------------------------------------------------
(* functions/database.py *)

RECURSIVE SortDesc(_)
SortDesc(s) ==
    IF s = <<>> THEN <<>>
    ELSE LET i == CHOOSE i \in DOMAIN s : \A j \in DOMAIN s : s[i] >= s[j]
         IN <<s[i]>> \o SortDesc(SubSeq(s, 1, i - 1) \o SubSeq(s, i + 1, Len(s)))

Punkte(rs) == [i \in DOMAIN rs |-> rs[i].score]

in_top10_ge(score, row) == score >= row

(* line 51: the comparison with the row of OFFSET 9 *)
in_top10_gt(score, row) == score > row

in_top10(score) ==
    IF ~db_cur THEN FALSE
    ELSE LET rows == SortDesc(Punkte(records))
         IN IF Len(rows) <= TopOffset THEN TRUE
            ELSE in_top10_gt(score, rows[TopOffset + 1])

append_team_replaces_last(teamname, score) ==
    IF ~db_cur THEN records
    ELSE IF records = <<>> THEN <<[name |-> teamname, score |-> score]>>
    ELSE [records EXCEPT ![Len(records)] = [name |-> teamname, score |-> score]]

(* DataBase.append_team: the table after the call *)
append_team(teamname, score) ==
    IF ~db_cur THEN records
    ELSE Append(records, [name |-> teamname, score |-> score])

--------------------------------------------------------------------------
(* functions/name.py: NameInputManager.handle_input *)

(* lines 73-88: the action a key or a serial command stands for *)
NmAction(input_signal) ==
    IF input_signal \in Keys
    THEN CASE input_signal = "K_UP" -> "UP"
           [] input_signal = "K_DOWN" -> "DOWN"
           [] input_signal = "K_LEFT" -> "LEFT"
           [] input_signal = "K_RIGHT" -> "RIGHT"
           [] input_signal = "K_RETURN" -> "CONFIRM_GLOBAL"
           [] input_signal = "K_ESCAPE" -> "ESCAPE"
           [] OTHER -> "None"
    ELSE IF input_signal \in {"UP", "DOWN", "LEFT", "RIGHT"}
         THEN input_signal
         ELSE "None"

(* lines 103-108: the character an UP or DOWN puts at the focused position *)
change_character(c, action) ==
    LET char_idx == Find(allowed_chars, c)
    IN IF action = "UP"
       THEN At(allowed_chars, (char_idx - 1) % Len(allowed_chars))
       ELSE At(allowed_chars, (char_idx + 1) % Len(allowed_chars))

(* what handle_input leaves unchanged *)
NmSame(res) ==
    [result |-> res, chars |-> player_name_chars, focus |-> current_focus_index,
     act |-> active, final |-> final_entered_name, appended |-> FALSE,
     nmlast |-> nm_last_input_time]

press_ok_default_name(now) ==
    [result |-> "NAME_ENTERED", chars |-> player_name_chars,
     focus |-> current_focus_index, act |-> FALSE,
     final |-> DefaultName, appended |-> TRUE, nmlast |-> now]

(* lines 113-116 and 121-124: the OK button is pressed *)
press_ok(now) ==
    [result |-> "NAME_ENTERED", chars |-> player_name_chars,
     focus |-> current_focus_index, act |-> FALSE,
     final |-> player_name_chars, appended |-> TRUE, nmlast |-> now]

on_up_down_ignored_at_ok(action, now) ==
    IF current_focus_index < name_length
    THEN [NmSame("ACTION_TAKEN") EXCEPT
            !.chars = [player_name_chars EXCEPT ![current_focus_index + 1] =
                         change_character(@, action)],
            !.nmlast = now]
    ELSE [NmSame("None") EXCEPT !.nmlast = now]

(* lines 100-116 *)
on_up_down(action, now) ==
    IF current_focus_index < name_length
    THEN [NmSame("ACTION_TAKEN") EXCEPT
            !.chars = [player_name_chars EXCEPT ![current_focus_index + 1] =
                         change_character(@, action)],
            !.nmlast = now]
    ELSE IF current_focus_index = ok_button_index
         THEN press_ok(now)
         ELSE [NmSame("None") EXCEPT !.nmlast = now]

on_confirm_commits_anywhere(now) == press_ok(now)

(* lines 118-128 *)
on_confirm(now) ==
    IF current_focus_index = ok_button_index
    THEN press_ok(now)
    ELSE [NmSame("ACTION_TAKEN") EXCEPT !.focus = ok_button_index, !.nmlast = now]

on_escape_appends(now) ==
    [NmSame("ESC_PRESSED") EXCEPT !.act = FALSE, !.nmlast = now,
                                  !.final = player_name_chars, !.appended = TRUE]

on_escape_unreported(now) ==
    [NmSame("ACTION_TAKEN") EXCEPT !.act = FALSE, !.nmlast = now]

(* lines 131-133 *)
on_escape(now) ==
    [NmSame("ESC_PRESSED") EXCEPT !.act = FALSE, !.nmlast = now]

on_left_right_among_characters(action, now) ==
    IF action = "LEFT"
    THEN [NmSame("ACTION_TAKEN") EXCEPT
            !.focus = (current_focus_index - 1 + name_length) % name_length,
            !.nmlast = now]
    ELSE [NmSame("ACTION_TAKEN") EXCEPT
            !.focus = (current_focus_index + 1) % name_length,
            !.nmlast = now]

on_left_right_no_wrap(action, now) ==
    IF action = "LEFT"
    THEN [NmSame("ACTION_TAKEN") EXCEPT
            !.focus = Max(current_focus_index - 1, 0),
            !.nmlast = now]
    ELSE [NmSame("ACTION_TAKEN") EXCEPT
            !.focus = 0 - Max(0 - (current_focus_index + 1), 0 - ok_button_index),
            !.nmlast = now]

(* lines 90-98 *)
on_left_right(action, now) ==
    IF action = "LEFT"
    THEN [NmSame("ACTION_TAKEN") EXCEPT
            !.focus = (current_focus_index - 1 + num_focus_items) % num_focus_items,
            !.nmlast = now]
    ELSE [NmSame("ACTION_TAKEN") EXCEPT
            !.focus = (current_focus_index + 1) % num_focus_items,
            !.nmlast = now]

(* the manager's fields and the returned status after handle_input;       *)
(* "DEBOUNCED" stands for the None of line 68                              *)
handle_input(input_signal, now) ==
    IF ~active THEN NmSame("None")
    ELSE IF now - nm_last_input_time < nm_input_delay THEN NmSame("DEBOUNCED")
    ELSE LET action == NmAction(input_signal)
         IN CASE action \in {"LEFT", "RIGHT"} -> on_left_right(action, now)
              [] action \in {"UP", "DOWN"} -> on_up_down(action, now)
              [] action = "CONFIRM_GLOBAL" -> on_confirm(now)
              [] action = "ESCAPE" -> on_escape(now)
              [] OTHER -> [NmSame("None") EXCEPT !.nmlast = now]

Truthy(result) == result \notin {"None", "DEBOUNCED"}

--------------------------------------------------------------------------
(* src/raspi/snake.py: class Game *)

direction_allowed_against_pending(potential_new_direction, current_direction) ==
    /\ potential_new_direction # VZERO
    /\ VAdd(potential_new_direction, new_direction) # VZERO

direction_allowed_any(potential_new_direction, current_direction) ==
    potential_new_direction # VZERO

(* lines 179 and 213: a direction is taken unless it reverses the heading *)
direction_allowed(potential_new_direction, current_direction) ==
    /\ potential_new_direction # VZERO
    /\ VAdd(potential_new_direction, current_direction) # VZERO

(* lines 164-171 and 202-209: the slot of a key or a command, 0 for none *)
SlotOf(input) ==
    CASE input \in {"K_LEFT", "LEFT"} -> 1
      [] input \in {"K_DOWN", "DOWN"} -> 2
      [] input \in {"K_UP", "UP"} -> 3
      [] input \in {"K_RIGHT", "RIGHT"} -> 4
      [] OTHER -> 0

handle_playing_keydown_always_taken(key) ==
    IF SlotOf(key) # 0
    THEN IF direction_allowed(vectors[SlotOf(key)], direction)
         THEN [action_taken |-> TRUE, new_direction |-> vectors[SlotOf(key)],
               running |-> running]
         ELSE [action_taken |-> TRUE, new_direction |-> new_direction,
               running |-> running]
    ELSE IF key = "K_ESCAPE"
         THEN [action_taken |-> TRUE, new_direction |-> new_direction,
               running |-> FALSE]
         ELSE [action_taken |-> FALSE, new_direction |-> new_direction,
               running |-> running]

(* Game.handle_playing_keydown: the return value and the fields it sets *)
handle_playing_keydown(key) ==
    IF SlotOf(key) # 0
    THEN IF direction_allowed(vectors[SlotOf(key)], direction)
         THEN [action_taken |-> TRUE, new_direction |-> vectors[SlotOf(key)],
               running |-> running]
         ELSE [action_taken |-> FALSE, new_direction |-> new_direction,
               running |-> running]
    ELSE IF key = "K_ESCAPE"
         THEN [action_taken |-> TRUE, new_direction |-> new_direction,
               running |-> FALSE]
         ELSE [action_taken |-> FALSE, new_direction |-> new_direction,
               running |-> running]

handle_playing_button_keeps_rejected(command) ==
    IF SlotOf(command) # 0
    THEN [action_taken |-> direction_allowed(vectors[SlotOf(command)], direction),
          new_direction |-> vectors[SlotOf(command)]]
    ELSE [action_taken |-> FALSE, new_direction |-> new_direction]

(* lines 197-216: the PLAYING branch of Game.handle_button_input *)
handle_playing_button(command) ==
    IF SlotOf(command) # 0 /\ direction_allowed(vectors[SlotOf(command)], direction)
    THEN [action_taken |-> TRUE, new_direction |-> vectors[SlotOf(command)]]
    ELSE [action_taken |-> FALSE, new_direction |-> new_direction]

update_speed_no_floor(n) == base_speed - ((n - 3) * speed_increment)

(* Game.update_speed: the timer interval for a body of length n *)
update_speed(n) ==
    Max(min_speed, base_speed - ((n - 3) * speed_increment))

remap_slot_overwritten ==
    {[vs EXCEPT ![1] = vs[2]] : vs \in shuffle_list(start_vectors)}

(* line 239: the mappings a remap can install *)
remap == shuffle_list(start_vectors)

milestone_one_early(score) == (score + 1) % MilestoneStep = 0

(* line 237: the remap milestone *)
milestone(score) == score % MilestoneStep = 0 /\ score # 0

(* lines 242-244: the fruit after the loop over the body, for every       *)
(* outcome of the draws; f is the fruit before the i-th body cell is read  *)
RECURSIVE fruit_after_loop(_, _, _)
fruit_after_loop(f, i, b) ==
    IF i > Len(b) THEN {f}
    ELSE IF f = b[i]
         THEN UNION {fruit_after_loop(c, i + 1, b) : c \in randomize}
         ELSE fruit_after_loop(f, i + 1, b)

(* Game.check_fail_collision: how often it calls game_over *)
wall_collision(head) ==
    ~(0 <= head[1] /\ head[1] < cell_number_x /\ 0 <= head[2] /\ head[2] < cell_number_y)

self_collisions(b) == Cardinality({i \in 2 .. Len(b) : b[i] = b[1]})

check_fail_collision(b) ==
    (IF wall_collision(b[1]) THEN 1 ELSE 0) + self_collisions(b)

(* Game.game_over as the class binds it: the definition at lines 361-366   *)
(* replaces the one at lines 259-269. It writes the module global          *)
(* game_active and, when the score is eligible, evaluates the undefined    *)
(* name name_system, which raises NameError.                               *)
game_over(b) ==
    [game_active |-> FALSE, raises |-> in_top10(Len(b) - 3)]

reset_game_to_game_over(f, lit) ==
    /\ vectors' = start_vectors
    /\ directions' = update_arrow_directions(start_vectors)
    /\ body' = InitBody
    /\ direction' = InitDirection
    /\ new_block' = FALSE
    /\ fruit' = f
    /\ current_speed' = base_speed
    /\ game_state' = "GAME_OVER"
    /\ active' = FALSE
    /\ new_direction' = VRIGHT
    /\ last_input_time' = lit

reset_game_keeps_speed(f, lit) ==
    /\ vectors' = start_vectors
    /\ directions' = update_arrow_directions(start_vectors)
    /\ body' = InitBody
    /\ direction' = InitDirection
    /\ new_block' = FALSE
    /\ fruit' = f
    /\ current_speed' = current_speed
    /\ game_state' = "PLAYING"
    /\ active' = FALSE
    /\ new_direction' = VRIGHT
    /\ last_input_time' = lit

reset_game_clears_time(f, lit) ==
    /\ vectors' = start_vectors
    /\ directions' = update_arrow_directions(start_vectors)
    /\ body' = InitBody
    /\ direction' = InitDirection
    /\ new_block' = FALSE
    /\ fruit' = f
    /\ current_speed' = base_speed
    /\ game_state' = "PLAYING"
    /\ active' = FALSE
    /\ new_direction' = VRIGHT
    /\ last_input_time' = 0

(* Game.reset_game; f is the cell FRUIT() draws, lit the value            *)
(* last_input_time has when the calling handler returns                    *)
reset_game(f, lit) ==
    /\ vectors' = start_vectors
    /\ directions' = update_arrow_directions(start_vectors)
    /\ body' = InitBody
    /\ direction' = InitDirection
    /\ new_block' = FALSE
    /\ fruit' = f
    /\ current_speed' = base_speed
    /\ game_state' = "PLAYING"
    /\ active' = FALSE
    /\ new_direction' = VRIGHT
    /\ last_input_time' = lit

--------------------------------------------------------------------------
(* The state after Game.__init__ *)

Event(op, arg, res, nm) == [op |-> op, arg |-> arg, res |-> res, nm |-> nm]

Row(n, sc) == [name |-> n, score |-> sc]

(* Leaderboard.db as an earlier session may have left it *)
FullScores == <<50, 45, 40, 35, 30, 25, 20, 15, 10, 5>>
StoreOf(scores) == [i \in DOMAIN scores |-> Row(DefaultName, scores[i])]
NineScores == SubSeq(FullScores, 1, TopOffset)
InitStores == {<<>>, StoreOf(FullScores)}

InitCommon ==
    /\ running = TRUE
    /\ game_active = "unset"
    /\ vectors = start_vectors
    /\ directions = update_arrow_directions(start_vectors)
    /\ final_entered_name = <<>>
    /\ db_cur \in BOOLEAN
    /\ append_calls = <<>>
    /\ processed_action_this_frame = FALSE
    /\ pc = "idle"
    /\ nEvents = 0
    /\ last = Event("init", "-", "-", "-")
    /\ accepted = 0

Init ==
    /\ InitCommon
    /\ records \in IF db_cur THEN InitStores ELSE {<<>>}
    /\ game_state = "PLAYING"
    /\ body = InitBody
    /\ direction = InitDirection
    /\ new_direction = VRIGHT
    /\ new_block = FALSE
    /\ current_speed = base_speed
    /\ fruit \in randomize
    /\ eaten = 0
    /\ last_input_time = 0
    /\ active = FALSE
    /\ player_name_chars = DefaultName
    /\ current_focus_index = 0
    /\ current_score = 0
    /\ nm_last_input_time = 0
    /\ clock = StartClock
    /\ current_time_ms = StartClock

--------------------------------------------------------------------------
(* Game.run and Game.handle_events *)

(* The observers: eaten counts the steps on which line 233 found the head  *)
(* on the fruit and starts again at a reset_game; accepted counts the      *)
(* inputs of the current iteration whose handler reported action_taken.    *)
Observe ==
    /\ eaten' = IF last'.op = "SCREEN_UPDATE" /\ last'.res = "ate" THEN eaten + 1
              ELSE IF game_state # "PLAYING" /\ game_state' = "PLAYING" THEN 0
              ELSE eaten
    /\ accepted' = IF last'.op = "FRAME" THEN 0
                 ELSE IF last'.op \in {"KEYDOWN", "BUTTON"} /\ last'.res = "accepted"
                      THEN accepted + 1
                 ELSE accepted

input_always_due == TRUE

(* lines 119 and 122: the time since the input accepted last *)
input_due == current_time_ms - last_input_time >= input_delay

(* lines 98-99 and 108-109: a loop iteration starts *)
BeginFrame ==
    /\ pc = "idle"
    /\ running
    /\ \E dt \in FrameDt :
         /\ clock + dt <= MaxTime
         /\ clock' = clock + dt
         /\ current_time_ms' = clock + dt
    /\ processed_action_this_frame' = FALSE
    /\ pc' = "events"
    /\ nEvents' = 0
    /\ last' = Event("FRAME", "-", "-", "-")
    /\ UNCHANGED <<gameVars, nmVars, dbVars>>
    /\ Observe

(* lines 98 and 103-104: the loop ends *)
ExitLoop ==
    /\ pc = "idle"
    /\ ~running
    /\ pc' = "exited"
    /\ last' = Event("EXIT", "-", "-", "-")
    /\ UNCHANGED <<gameVars, nmVars, dbVars, clock, current_time_ms,
                   processed_action_this_frame, nEvents>>
    /\ Observe

NextEvent ==
    /\ pc = "events"
    /\ nEvents < MaxEvents
    /\ nEvents' = nEvents + 1
    /\ UNCHANGED <<clock, current_time_ms, db_cur>>

(* lines 112-113 *)
EvQuit ==
    /\ NextEvent
    /\ running' = FALSE
    /\ last' = Event("QUIT", "-", "-", "-")
    /\ UNCHANGED <<game_state, game_active, vectors, directions, body,
                   direction, new_block, fruit, current_speed, new_direction,
                   last_input_time, nmVars, records, append_calls,
                   processed_action_this_frame, pc>>
    /\ Observe

handle_screen_update_steps_in_any_state ==
    /\ direction' = new_direction
    /\ body' = move_snake(body, new_direction, new_block)
    /\ new_block' = FALSE
    /\ last' = Event("SCREEN_UPDATE", "-", "moved", "-")
    /\ UNCHANGED <<game_state, running, game_active, vectors, directions, fruit,
                   current_speed, new_direction, last_input_time, pc>>

(* Game.handle_screen_update with update_game_logic, check_fruit_collision *)
(* and check_fail_collision                                                *)
handle_screen_update ==
    IF game_state = "PLAYING"
    THEN LET b1 == move_snake(body, new_direction, new_block)
             ate == fruit = b1[1]
             score == Len(b1) - 2
             calls == check_fail_collision(b1)
             go == game_over(b1)
         IN /\ direction' = new_direction
            /\ body' = b1
            /\ new_block' = ate
            /\ IF ate
               THEN /\ \E c \in randomize : fruit' \in fruit_after_loop(c, 1, b1)
                    /\ IF milestone(score)
                       THEN \E vs \in remap :
                              /\ vectors' = vs
                              /\ directions' = update_arrow_directions(vs)
                       ELSE UNCHANGED <<vectors, directions>>
                    /\ current_speed' = update_speed(Len(b1))
               ELSE UNCHANGED <<fruit, vectors, directions, current_speed>>
            /\ game_active' = IF calls > 0 THEN go.game_active ELSE game_active
            /\ pc' = IF calls > 0 /\ go.raises THEN "crashed" ELSE pc
            /\ last' = Event("SCREEN_UPDATE",
                             IF ate /\ milestone(score) THEN "remap" ELSE "-",
                             IF ate THEN "ate" ELSE "moved", "-")
            /\ UNCHANGED <<game_state, running, new_direction, last_input_time>>
    ELSE /\ last' = Event("SCREEN_UPDATE", "-", "skipped", "-")
         /\ UNCHANGED <<gameVars, pc>>

(* lines 115-116 *)
EvScreenUpdate ==
    /\ NextEvent
    /\ handle_screen_update
    /\ UNCHANGED <<nmVars, records, append_calls, processed_action_this_frame>>
    /\ Observe

(* the NAME_INPUT branch of handle_keydown (lines 136-142, 154-155) and of *)
(* handle_button_input (lines 189-195, 222-223)                            *)
name_input_branch(op, input_signal) ==
    \E skew \in Skews :
      LET r == handle_input(input_signal, current_time_ms + skew)
      IN /\ player_name_chars' = r.chars
         /\ current_focus_index' = r.focus
         /\ final_entered_name' = r.final
         /\ nm_last_input_time' = r.nmlast
         /\ UNCHANGED current_score
         /\ records' = IF r.appended THEN append_team(r.final, current_score)
                       ELSE records
         /\ append_calls' = IF r.appended
                            THEN Append(append_calls, Row(r.final, current_score))
                            ELSE append_calls
         /\ IF r.result \in {"NAME_ENTERED", "ESC_PRESSED"}
            THEN /\ \E f \in randomize : reset_game(f, current_time_ms)
                 /\ UNCHANGED <<running, game_active>>
            ELSE /\ active' = r.act
                 /\ last_input_time' = IF Truthy(r.result) THEN current_time_ms
                                       ELSE last_input_time
                 /\ UNCHANGED <<game_state, running, game_active, vectors,
                                directions, body, direction, new_block, fruit,
                                current_speed, new_direction>>
         /\ processed_action_this_frame' =
              IF op = "KEYDOWN" THEN Truthy(r.result)
              ELSE processed_action_this_frame
         /\ last' = Event(op, input_signal,
                          IF Truthy(r.result) THEN "accepted" ELSE "rejected",
                          r.result)

(* Game.handle_keydown *)
handle_keydown(key) ==
    CASE game_state = "NAME_INPUT" -> name_input_branch("KEYDOWN", key)
      [] game_state = "PLAYING" ->
           LET r == handle_playing_keydown(key)
           IN /\ new_direction' = r.new_direction
              /\ running' = r.running
              /\ last_input_time' = IF r.action_taken THEN current_time_ms
                                    ELSE last_input_time
              /\ processed_action_this_frame' = r.action_taken
              /\ last' = Event("KEYDOWN", key,
                               IF r.action_taken THEN "accepted" ELSE "rejected",
                               "-")
              /\ UNCHANGED <<game_state, game_active, vectors, directions, body,
                             direction, new_block, fruit, current_speed, nmVars,
                             records, append_calls>>
      [] game_state = "GAME_OVER" ->
           /\ IF key = "K_ESCAPE"
              THEN /\ running' = FALSE
                   /\ last_input_time' = current_time_ms
                   /\ UNCHANGED <<game_state, game_active, vectors, directions,
                                  body, direction, new_block, fruit,
                                  current_speed, new_direction, active>>
              ELSE /\ \E f \in randomize : reset_game(f, current_time_ms)
                   /\ UNCHANGED <<running, game_active>>
           /\ processed_action_this_frame' = TRUE
           /\ last' = Event("KEYDOWN", key, "accepted", "-")
           /\ UNCHANGED <<player_name_chars, current_focus_index, current_score,
                          final_entered_name, nm_last_input_time, records,
                          append_calls>>

(* lines 118-120 *)
EvKeyDown ==
    /\ NextEvent
    /\ UNCHANGED pc
    /\ \E key \in Keys :
         IF input_due
         THEN handle_keydown(key)
         ELSE /\ last' = Event("KEYDOWN", key, "debounced", "-")
              /\ UNCHANGED <<gameVars, nmVars, records, append_calls,
                             processed_action_this_frame>>
    /\ Observe

(* Game.handle_button_input *)
handle_button_input(command) ==
    CASE game_state = "NAME_INPUT" -> name_input_branch("BUTTON", command)
      [] game_state = "PLAYING" ->
           LET r == handle_playing_button(command)
           IN /\ new_direction' = r.new_direction
              /\ last_input_time' = IF r.action_taken THEN current_time_ms
                                    ELSE last_input_time
              /\ last' = Event("BUTTON", command,
                               IF r.action_taken THEN "accepted" ELSE "rejected",
                               "-")
              /\ UNCHANGED <<game_state, running, game_active, vectors,
                             directions, body, direction, new_block, fruit,
                             current_speed, nmVars, records, append_calls,
                             processed_action_this_frame>>
      [] game_state = "GAME_OVER" ->
           /\ \E f \in randomize : reset_game(f, current_time_ms)
           /\ last' = Event("BUTTON", command, "accepted", "-")
           /\ UNCHANGED <<running, game_active, player_name_chars,
                          current_focus_index, current_score,
                          final_entered_name, nm_last_input_time, records,
                          append_calls, processed_action_this_frame>>

(* lines 122-125, then render and clock.tick: the iteration ends *)
PollButton ==
    /\ pc = "events"
    /\ pc' = "idle"
    /\ UNCHANGED <<clock, current_time_ms, db_cur, nEvents>>
    /\ IF ~processed_action_this_frame /\ input_due
       THEN \E button_command \in read_button_input :
              IF button_command # "NONE"
              THEN handle_button_input(button_command)
              ELSE /\ last' = Event("BUTTON", "NONE", "none", "-")
                   /\ UNCHANGED <<gameVars, nmVars, records, append_calls,
                                  processed_action_this_frame>>
       ELSE /\ last' = Event("BUTTON", "-", "not polled", "-")
            /\ UNCHANGED <<gameVars, nmVars, records, append_calls,
                           processed_action_this_frame>>
    /\ Observe

Next ==
    \/ BeginFrame
    \/ EvQuit
    \/ EvScreenUpdate
    \/ EvKeyDown
    \/ PollButton
    \/ ExitLoop

Spec == Init /\ [][Next]_vars

--------------------------------------------------------------------------
(* Name capture. game_state becomes NAME_INPUT only at lines 267-269, in   *)
(* the game_over definition that lines 361-366 replace, so under Spec the  *)
(* NAME_INPUT branches of the handlers are never entered. SpecName starts  *)
(* where lines 261-269 leave the game after a collision with an eligible   *)
(* score; its times count from the activation.                             *)

CollidedBody0 == << <<4, 1>>, <<3, 1>>, <<2, 1>> >>
CollidedBody1 == << <<4, 1>>, <<3, 1>>, <<2, 1>>, <<1, 1>> >>

InitName ==
    /\ InitCommon
    /\ game_state = "NAME_INPUT"
    /\ \/ body = CollidedBody0 /\ records = <<>>
       \/ body = CollidedBody1 /\ records = StoreOf(NineScores)
    /\ direction = VRIGHT
    /\ new_direction = VRIGHT
    /\ new_block = FALSE
    /\ current_speed = base_speed
    /\ fruit = <<0, 0>>
    /\ last_input_time = 0
    /\ active = TRUE
    /\ player_name_chars = DefaultName
    /\ current_focus_index = 0
    /\ current_score = Len(body) - 3
    /\ eaten = Len(body) - 3
    /\ nm_last_input_time = 0
    /\ clock = 0
    /\ current_time_ms = 0
    /\ in_top10(current_score)

SpecName == InitName /\ [][Next]_vars

--------------------------------------------------------------------------
(* A run in progress: the snake has gone round the grid, has eaten at      *)
(* (1,1), (0,1), (0,0) and, on the last step, at (1,0), so the fourth      *)
(* block is still pending; the next fruit is the fifth. Its times count    *)
(* from a frame start 10 ms before MaxTime; the last accepted input is     *)
(* longer ago than input_delay.                                            *)

MidBody == << <<1, 0>>, <<0, 0>>, <<0, 1>>, <<1, 1>>, <<2, 1>>, <<3, 1>> >>

InitMid ==
    /\ InitCommon
    /\ game_state = "PLAYING"
    /\ body = MidBody
    /\ direction = VRIGHT
    /\ new_direction = VRIGHT
    /\ new_block = TRUE
    /\ current_speed = update_speed(Len(MidBody))
    /\ eaten = 4
    /\ fruit \in {<<2, 0>>, <<3, 0>>}
    /\ db_cur
    /\ records = StoreOf(FullScores)
    /\ last_input_time = 0
    /\ active = FALSE
    /\ player_name_chars = DefaultName
    /\ current_focus_index = 0
    /\ current_score = 0
    /\ nm_last_input_time = 0
    /\ clock = MaxTime - 10
    /\ current_time_ms = MaxTime - 10

SpecMid == InitMid /\ [][Next]_vars

(* the game from its construction and from the run in progress *)
SpecPlay == (Init \/ InitMid) /\ [][Next]_vars

(* A long run: the snake has followed the closed tour (0,0) (1,0) (2,0)   *)
(* (3,0) (3,1) (3,2) (2,2) (2,1) (1,1) (1,2) (0,2) (0,1) of the grid, has   *)
(* just eaten its ninth fruit at (0,1) and fills every cell but (0,0),     *)
(* where the tenth fruit lies. The mapping is the one the remap at the     *)
(* fifth fruit drew, here the default order.                               *)

LateBody == << <<0, 1>>, <<0, 2>>, <<1, 2>>, <<1, 1>>, <<2, 1>>, <<2, 2>>,
               <<3, 2>>, <<3, 1>>, <<3, 0>>, <<2, 0>>, <<1, 0>> >>

InitLate ==
    /\ InitCommon
    /\ game_state = "PLAYING"
    /\ body = LateBody
    /\ direction = VUP
    /\ new_direction = VUP
    /\ new_block = TRUE
    /\ current_speed = update_speed(Len(LateBody))
    /\ eaten = 9
    /\ fruit = <<0, 0>>
    /\ db_cur
    /\ records = StoreOf(FullScores)
    /\ last_input_time = 0
    /\ active = FALSE
    /\ player_name_chars = DefaultName
    /\ current_focus_index = 0
    /\ current_score = 0
    /\ nm_last_input_time = 0
    /\ clock = MaxTime - 10
    /\ current_time_ms = MaxTime - 10

(* the game from its construction and from the two runs in progress *)
SpecRun == (Init \/ InitMid \/ InitLate) /\ [][Next]_vars

(* Game over. game_state becomes GAME_OVER only at line 261, in the        *)
(* game_over definition that lines 361-366 replace. InitOver is where      *)
(* lines 261-269 leave the game after a snake that ate two fruits left the *)
(* grid through the top wall with a score that is not eligible.            *)

OverBody == << <<2, -1>>, <<2, 0>>, <<2, 1>>, <<1, 1>>, <<0, 1>> >>

InitOver ==
    /\ InitCommon
    /\ records = IF db_cur THEN StoreOf(FullScores) ELSE <<>>
    /\ game_state = "GAME_OVER"
    /\ body = OverBody
    /\ direction = VUP
    /\ new_direction = VUP
    /\ new_block = FALSE
    /\ current_speed = update_speed(Len(OverBody) - 1)
    /\ eaten = Len(OverBody) - 3
    /\ fruit = <<0, 0>>
    /\ last_input_time = 0
    /\ active = FALSE
    /\ player_name_chars = DefaultName
    /\ current_focus_index = 0
    /\ current_score = 0
    /\ nm_last_input_time = 0
    /\ clock = StartClock
    /\ current_time_ms = StartClock
    /\ ~in_top10(Len(body) - 3)

(* the game from its construction, from the runs in progress and from the *)
(* states a collision is meant to lead to                                  *)
SpecAll == (Init \/ InitMid \/ InitLate \/ InitName \/ InitOver) /\ [][Next]_vars

--------------------------------------------------------------------------
(* The store on its own: calls of DataBase.append_team and                 *)
(* DataBase.in_top10 on the tables of InitDB                               *)

QueryScores == {0, 4, 5, 6, 10, 11, 50, 51}

InitDB ==
    /\ InitCommon
    /\ records \in IF db_cur
                    THEN {<<>>, StoreOf(NineScores), StoreOf(FullScores)}
                    ELSE {<<>>}
    /\ game_state = "PLAYING"
    /\ body = InitBody
    /\ direction = InitDirection
    /\ new_direction = VRIGHT
    /\ new_block = FALSE
    /\ current_speed = base_speed
    /\ fruit = <<0, 0>>
    /\ last_input_time = 0
    /\ active = FALSE
    /\ player_name_chars = DefaultName
    /\ current_focus_index = 0
    /\ current_score = 0
    /\ nm_last_input_time = 0
    /\ eaten = 0
    /\ clock = StartClock
    /\ current_time_ms = StartClock

DbAppend ==
    /\ Len(append_calls) < MaxAppends
    /\ \E sc \in QueryScores :
         /\ records' = append_team(DefaultName, sc)
         /\ append_calls' = Append(append_calls, Row(DefaultName, sc))
         /\ last' = Event("append_team", sc, "-", "-")
    /\ UNCHANGED <<gameVars, nmVars, db_cur, clock, current_time_ms,
                   processed_action_this_frame, pc, nEvents, eaten, accepted>>

DbInTop10 ==
    /\ \E sc \in QueryScores : last' = Event("in_top10", sc, in_top10(sc), "-")
    /\ UNCHANGED <<gameVars, nmVars, dbVars, clock, current_time_ms,
                   processed_action_this_frame, pc, nEvents, eaten, accepted>>

NextDB == DbAppend \/ DbInTop10

SpecDB == InitDB /\ [][NextDB]_vars

--------------------------------------------------------------------------
(* Properties *)

VNeg(v) == <<0 - v[1], 0 - v[2]>>
BaseDirections == {VLEFT, VDOWN, VUP, VRIGHT}

IsInput(e) == e.op \in {"KEYDOWN", "BUTTON"}
Delivered(e) == IsInput(e) /\ e.res # "debounced" /\ e.nm # "DEBOUNCED"
StepDone(e) == e.op = "SCREEN_UPDATE" /\ e.res \in {"moved", "ate"}
Collided == check_fail_collision(body) > 0
TheRow == Row(player_name_chars, current_score)

(* C1: in Playing, a key or a button command whose slot maps, through the  *)
(* current control mapping, to the opposite of the snake's heading changes *)
(* neither snake.direction nor the pending direction.                      *)
C1_ReversalRejected ==
    [][(/\ game_state = "PLAYING"
        /\ IsInput(last')
        /\ SlotOf(last'.arg) # 0
        /\ vectors[SlotOf(last'.arg)] = VNeg(direction))
       => (direction' = direction /\ new_direction' = new_direction)]_vars

(* a button command was rejected as a reversal under a remapped mapping *)
C1_Witness ==
    /\ game_state = "PLAYING"
    /\ last.op = "BUTTON"
    /\ last.res = "rejected"
    /\ SlotOf(last.arg) # 0
    /\ vectors # start_vectors
    /\ vectors[SlotOf(last.arg)] = VNeg(direction)

(* C2: a simulation step that ends with the head outside the grid or on a  *)
(* body cell leaves the game in GameOver or NameInput, not in Playing.     *)
C2_CollisionLeavesPlaying ==
    (StepDone(last) /\ Collided) => game_state \in {"GAME_OVER", "NAME_INPUT"}

(* C3: after a step that ate the fruit, the committed fruit cell is not a  *)
(* cell of the snake body, whatever the random draws were.                 *)
C3_FruitOffBody ==
    (last.op = "SCREEN_UPDATE" /\ last.res = "ate") => fruit \notin Range(body)

(* C4: with the store available, in_top10(score) is true iff fewer than    *)
(* ten rows are stored or score is strictly above the tenth-highest stored *)
(* score; a score equal to it is not eligible.                             *)
IsTenthHighest(v) ==
    /\ \E i \in DOMAIN records : records[i].score = v
    /\ Cardinality({i \in DOMAIN records : records[i].score > v}) <= TopOffset
    /\ Cardinality({i \in DOMAIN records : records[i].score >= v}) > TopOffset

Eligible(sc) ==
    \/ Len(records) < TopOffset + 1
    \/ \E i \in DOMAIN records : IsTenthHighest(records[i].score) /\ sc > records[i].score

C4_InTop10 ==
    db_cur =>
      /\ \A sc \in QueryScores : in_top10(sc) <=> Eligible(sc)
      /\ last.op = "in_top10" => (last.res <=> Eligible(last.arg))

(* the query of scenario B: the tenth-highest score itself is refused *)
C4_Witness ==
    /\ db_cur
    /\ Len(records) = TopOffset + 1
    /\ last.op = "in_top10"
    /\ IsTenthHighest(last.arg)
    /\ last.res = FALSE
    /\ in_top10(last.arg + 1)

(* C5: when a run ends by collision the game is in NameInput, with name    *)
(* capture active on the score len(body) - 3, iff that score is eligible;  *)
(* otherwise it is in GameOver with name capture inactive.                 *)
C5_EligibilityDecidesState ==
    (StepDone(last) /\ Collided) =>
      IF in_top10(Len(body) - 3)
      THEN game_state = "NAME_INPUT" /\ active /\ current_score = Len(body) - 3
      ELSE game_state = "GAME_OVER" /\ ~active

(* C6: in NameInput with the focus on the confirm control, a delivered     *)
(* Return key makes exactly one append_team call, with the buffer as name  *)
(* and the score captured at activation, and the game is Playing; no       *)
(* editing in NameInput changes the captured score.                        *)
C6_ConfirmAppendsOnce ==
    [][/\ (/\ game_state = "NAME_INPUT"
           /\ current_focus_index = ok_button_index
           /\ Delivered(last')
           /\ last'.arg = "K_RETURN")
          => /\ append_calls' = Append(append_calls, TheRow)
             /\ records' = (IF db_cur THEN Append(records, TheRow) ELSE records)
             /\ current_score = Len(body) - 3
             /\ game_state' = "PLAYING"
       /\ (game_state = "NAME_INPUT" /\ game_state' = "NAME_INPUT")
          => current_score' = current_score]_vars

(* an edited buffer was confirmed with the Return key *)
C6_Witness ==
    /\ last.op = "KEYDOWN"
    /\ last.arg = "K_RETURN"
    /\ last.nm = "NAME_ENTERED"
    /\ game_state = "PLAYING"
    /\ final_entered_name # DefaultName
    /\ Len(append_calls) = 1
    /\ append_calls[1].name = final_entered_name

(* C7: in NameInput a delivered Escape key, at any focus and with any      *)
(* buffer, leads to Playing and leaves the store as it was.                *)
C7_CancelWritesNothing ==
    [][(/\ game_state = "NAME_INPUT"
        /\ Delivered(last')
        /\ last'.arg = "K_ESCAPE")
       => /\ game_state' = "PLAYING"
          /\ records' = records
          /\ append_calls' = append_calls]_vars

(* Escape was pressed on the confirm control with an edited buffer *)
C7_Witness ==
    /\ last.op = "KEYDOWN"
    /\ last.arg = "K_ESCAPE"
    /\ last.nm = "ESC_PRESSED"
    /\ game_state = "PLAYING"
    /\ current_focus_index = ok_button_index
    /\ player_name_chars # DefaultName
    /\ append_calls = <<>>

NextSymbol(c) == At(allowed_chars, (Find(allowed_chars, c) + 1) % Len(allowed_chars))
PrevSymbol(c) ==
    At(allowed_chars, (Find(allowed_chars, c) + Len(allowed_chars) - 1) % Len(allowed_chars))

C10_MappingIsPermutation ==
    /\ DOMAIN vectors = 1 .. 4
    /\ Range(vectors) = BaseDirections
    /\ \A i, j \in 1 .. 4 : i # j => vectors[i] # vectors[j]

(* a remap at a milestone has installed a mapping other than the default *)
C10_Witness ==
    /\ last.op = "SCREEN_UPDATE"
    /\ last.res = "ate"
    /\ milestone(Len(body) - 2)
    /\ vectors # start_vectors

(* C11: a step that eats a fruit runs the remap (line 239) iff the number  *)
(* of fruits eaten in the run, this one included, is a positive multiple   *)
(* of 5, and leaves the mapping alone otherwise; the score the step        *)
(* computes, len(body) - 2, is that number; a step that eats nothing never *)
(* changes the mapping.                                                    *)
C11_RemapAtMultiplesOfFive ==
    [][last'.op = "SCREEN_UPDATE" =>
         IF last'.res = "ate"
         THEN /\ Len(body') - 2 = eaten'
              /\ (last'.arg = "remap") <=> (eaten' > 0 /\ eaten' % MilestoneStep = 0)
              /\ last'.arg # "remap" => vectors' = vectors
         ELSE vectors' = vectors]_vars

(* the tenth fruit of a run was eaten and the remap ran a second time *)
C11_Witness ==
    /\ last.op = "SCREEN_UPDATE"
    /\ last.res = "ate"
    /\ last.arg = "remap"
    /\ eaten = 2 * MilestoneStep

(* C12: a simulation step leaves the length of the body as it is or adds   *)
(* one cell, and the body is never empty; with the block still pending the *)
(* length is 3 plus the fruits eaten; no other event changes the body,     *)
(* except a reset, which installs the snake of length 3.                   *)
C12_LengthGrowsByAtMostOne ==
    [][/\ last'.op = "SCREEN_UPDATE"
          => /\ Len(body') - Len(body) \in {0, 1}
             /\ Len(body') >= 1
             /\ Len(body') + (IF new_block' THEN 1 ELSE 0) = 3 + eaten'
       /\ last'.op # "SCREEN_UPDATE"
          => \/ body' = body
             \/ /\ game_state # "PLAYING"
                /\ game_state' = "PLAYING"
                /\ body' = InitBody]_vars

(* a step has realised the growth of a fruit eaten on the step before *)
C12_Witness ==
    /\ last.op = "SCREEN_UPDATE"
    /\ last.res = "moved"
    /\ eaten = 1
    /\ Len(body) = 4
    /\ ~new_block

(* C13: a key or a poll that comes less than input_delay after the input   *)
(* accepted last changes nothing, whatever the source of either and        *)
(* whatever the game state; an accepted input comes at least input_delay   *)
(* after the one before and becomes the input accepted last, also when its *)
(* handler resets the game; nothing else moves that timestamp.             *)
Accepted(e) == IsInput(e) /\ e.res = "accepted"

C13_DebounceWindow ==
    [][/\ (IsInput(last') /\ current_time_ms - last_input_time < input_delay)
          => /\ ~Accepted(last')
             /\ UNCHANGED <<gameVars, nmVars, dbVars, processed_action_this_frame>>
       /\ Accepted(last')
          => /\ current_time_ms - last_input_time >= input_delay
             /\ last_input_time' = current_time_ms
       /\ last_input_time' # last_input_time => Accepted(last')]_vars

(* a key was dropped in the iteration 10 ms after the one that accepted an *)
(* input                                                                   *)
C13_Witness ==
    /\ last.op = "KEYDOWN"
    /\ last.res = "debounced"
    /\ last_input_time > 0
    /\ current_time_ms - last_input_time = 10
    /\ accepted = 0

(* C14: in one iteration of the loop at most one input is accepted; the    *)
(* button source is read only after the key events of the iteration, only  *)
(* when none of them was accepted, and its reading ends the iteration.     *)
ButtonRead(e) == e.op = "BUTTON" /\ e.res \in {"accepted", "rejected", "none"}

C14_OneInputPerIteration ==
    [][/\ accepted' <= 1
       /\ ButtonRead(last') => (accepted = 0 /\ ~processed_action_this_frame)
       /\ last'.op = "BUTTON" => pc' # "events"
       /\ last'.op = "KEYDOWN" => pc = "events"
       /\ (last'.op = "BUTTON" /\ accepted = 1) => last'.res = "not polled"]_vars

(* an iteration handled two events, accepted a key among them and did not  *)
(* poll the button source                                                  *)
C14_Witness ==
    /\ last.op = "BUTTON"
    /\ last.res = "not polled"
    /\ nEvents = 2
    /\ accepted = 1
    /\ processed_action_this_frame

(* C15 as stated: every input that passes the delay test and reaches a     *)
(* handler sets last_input_time to the current time, a rejected reversal   *)
(* included.                                                               *)
Handled(e) == IsInput(e) /\ e.res \in {"accepted", "rejected"}

C15_TimestampOnEveryHandledInput ==
    [][Handled(last') => last_input_time' = current_time_ms]_vars

(* C15 amended: an input that reaches a handler sets last_input_time to    *)
(* the current time exactly when the handler reports an action taken; a    *)
(* reversal attempt in Playing, from a key or a button, is not an action   *)
(* taken and leaves last_input_time and the pending direction unchanged.   *)
C15_TimestampOnlyOnActionTaken ==
    [][/\ Handled(last')
          => last_input_time' = (IF last'.res = "accepted" THEN current_time_ms
                                 ELSE last_input_time)
       /\ (/\ Handled(last')
           /\ game_state = "PLAYING"
           /\ SlotOf(last'.arg) # 0
           /\ vectors[SlotOf(last'.arg)] = VNeg(direction))
          => UNCHANGED <<last_input_time, new_direction>>]_vars

(* a key asking for the reversal reached the handler and left the          *)
(* timestamp of an earlier accepted input in place                         *)
C15_Witness ==
    /\ game_state = "PLAYING"
    /\ last.op = "KEYDOWN"
    /\ last.res = "rejected"
    /\ SlotOf(last.arg) # 0
    /\ vectors[SlotOf(last.arg)] = VNeg(direction)
    /\ last_input_time > 0
    /\ current_time_ms - last_input_time >= input_delay

(* C16: the game starts in, and every step that enters Playing ends in,    *)
(* the state of a full reset: the snake of length 3, the default mapping,  *)
(* base_speed, pending direction RIGHT, name capture inactive. In GameOver *)
(* every handled input but the Escape key enters Playing; the Escape key   *)
(* stops the loop and resets nothing.                                      *)
AfterReset ==
    /\ game_state = "PLAYING"
    /\ body = InitBody
    /\ Len(body) = 3
    /\ ~new_block
    /\ fruit \in Cells
    /\ vectors = start_vectors
    /\ directions = <<"LEFT", "DOWN", "UP", "RIGHT">>
    /\ current_speed = base_speed
    /\ new_direction = VRIGHT
    /\ ~active

C16_EntryIsFullReset ==
    /\ (game_state = "PLAYING" /\ eaten = 0) => AfterReset
    /\ [][/\ (game_state # "PLAYING" /\ game_state' = "PLAYING") => AfterReset'
          /\ (game_state = "GAME_OVER" /\ Handled(last'))
             => IF last'.arg = "K_ESCAPE"
                THEN /\ ~running'
                     /\ UNCHANGED <<game_state, body, direction, new_block,
                                    fruit, vectors, directions, current_speed,
                                    new_direction, active>>
                ELSE game_state' = "PLAYING"]_vars

(* the button command LEFT, a reversal for the snake of a reset, was        *)
(* accepted: it found the game in GameOver and reset it                    *)
C16_Witness ==
    /\ AfterReset
    /\ last.op = "BUTTON"
    /\ last.arg = "LEFT"
    /\ last.res = "accepted"
    /\ last.nm = "-"
    /\ direction = VRIGHT

(* C17: game_state is always one of PLAYING, GAME_OVER, NAME_INPUT; a game *)
(* whose snake has not collided starts in PLAYING; a step changes the      *)
(* state only from PLAYING to GAME_OVER or NAME_INPUT, and then only a     *)
(* simulation step that ends in a collision, or from GAME_OVER or          *)
(* NAME_INPUT to PLAYING; an input never leads to GAME_OVER or NAME_INPUT. *)
GameStates == {"PLAYING", "GAME_OVER", "NAME_INPUT"}

C17_OnlyLifecycleTransitions ==
    /\ ~Collided => game_state = "PLAYING"
    /\ [][/\ game_state' \in GameStates
          /\ game_state' # game_state
             => \/ /\ game_state = "PLAYING"
                   /\ last'.op = "SCREEN_UPDATE"
                   /\ check_fail_collision(body') > 0
                \/ /\ game_state \in {"GAME_OVER", "NAME_INPUT"}
                   /\ game_state' = "PLAYING"
          /\ IsInput(last') => game_state' \in {game_state, "PLAYING"}]_vars

(* the key K_LEFT, a reversal for the snake of a reset, was accepted: it   *)
(* took the game from GameOver to Playing                                  *)
C17_Witness ==
    /\ game_state = "PLAYING"
    /\ last.op = "KEYDOWN"
    /\ last.arg = "K_LEFT"
    /\ last.res = "accepted"
    /\ last.nm = "-"
    /\ body = InitBody
    /\ vectors = start_vectors
    /\ direction = VRIGHT

(* C18: with the store unavailable in_top10 is false for every score, and  *)
(* a simulation step that ends in a collision leaves the game in GameOver, *)
(* not in NameInput, with the loop still running.                          *)
C18_FailingStoreGoesToGameOver ==
    ~db_cur =>
      /\ \A sc \in QueryScores : ~in_top10(sc)
      /\ (StepDone(last) /\ Collided)
         => /\ game_state = "GAME_OVER"
            /\ ~active
            /\ running
            /\ pc # "crashed"

(* C19: after a step that ate a fruit the timer interval is                *)
(* max(min_speed, base_speed - score * speed_increment) for the score      *)
(* len(body) - 2 of the milestone test of the same step.                   *)
C19_SpeedFromMilestoneScore ==
    (last.op = "SCREEN_UPDATE" /\ last.res = "ate")
      => current_speed = Max(min_speed, base_speed - (Len(body) - 2) * speed_increment)

(* C20: the timer interval is always between min_speed and base_speed; a   *)
(* step raises it only by a reset, to base_speed; update_speed is within   *)
(* these limits and does not grow with the length, for every length from 3 *)
(* to MaxLen.                                                              *)
C20_SpeedWithinLimits ==
    /\ [](/\ min_speed <= current_speed
          /\ current_speed <= base_speed
          /\ \A n \in 3 .. MaxLen :
               /\ min_speed <= update_speed(n)
               /\ update_speed(n) <= base_speed
               /\ update_speed(n + 1) <= update_speed(n))
    /\ [][current_speed' > current_speed
            => /\ game_state # "PLAYING"
               /\ game_state' = "PLAYING"
               /\ current_speed' = base_speed]_vars

(* the fifth fruit of a run was eaten and the interval went down *)
C20_Witness ==
    /\ last.op = "SCREEN_UPDATE"
    /\ last.res = "ate"
    /\ eaten = MilestoneStep
    /\ current_speed = base_speed - (eaten - 1) * speed_increment
    /\ current_speed < base_speed

(* C21: a step leaves the table as it is or appends one row to it; a row   *)
(* is appended only by an input handled in NameInput that commits the      *)
(* name, it holds the buffer and the captured score, and the step ends the *)
(* name capture and starts a new run, so a finished run writes at most one *)
(* row.                                                                    *)
C21_StoreAppendOnly ==
    [][\/ /\ records' = records
          /\ append_calls' = append_calls
       \/ /\ game_state = "NAME_INPUT"
          /\ active
          /\ Delivered(last')
          /\ last'.nm = "NAME_ENTERED"
          /\ append_calls' = Append(append_calls, TheRow)
          /\ records' = (IF db_cur THEN Append(records, TheRow) ELSE records)
          /\ game_state' = "PLAYING"
          /\ ~active'
          /\ eaten' = 0]_vars

(* a row was appended to a table that already held nine rows *)
C21_Witness ==
    /\ Len(records) = TopOffset + 1
    /\ Len(append_calls) = 1
    /\ records[TopOffset + 1] = append_calls[1]
    /\ SubSeq(records, 1, TopOffset) = StoreOf(NineScores)
    /\ last.nm = "NAME_ENTERED"

(* C22: in NameInput with the focus on a character, a delivered Return key *)
(* moves the focus to the confirm control and leaves the buffer, the       *)
(* table, the captured score and the game state as they were.              *)
C22_SoftConfirmMovesFocus ==
    [][(/\ game_state = "NAME_INPUT"
        /\ current_focus_index < name_length
        /\ Delivered(last')
        /\ last'.arg = "K_RETURN")
       => /\ current_focus_index' = ok_button_index
          /\ last'.nm = "ACTION_TAKEN"
          /\ UNCHANGED <<player_name_chars, final_entered_name, current_score,
                         active, records, append_calls, game_state>>]_vars

(* the Return key on a character of an edited buffer moved the focus to    *)
(* the confirm control                                                     *)
C22_Witness ==
    /\ game_state = "NAME_INPUT"
    /\ last.op = "KEYDOWN"
    /\ last.arg = "K_RETURN"
    /\ last.nm = "ACTION_TAKEN"
    /\ current_focus_index = ok_button_index
    /\ player_name_chars # DefaultName
    /\ append_calls = <<>>

(* C23: the focus index is always within 0..5 and the buffer is always     *)
(* five symbols of the alphabet; in NameInput a delivered RIGHT moves the  *)
(* focus from i to (i + 1) mod 6 and a delivered LEFT to (i - 1) mod 6,    *)
(* from a key or a button alike, and neither changes the buffer.           *)
C23_FocusMovesCircularly ==
    /\ [](/\ current_focus_index \in 0 .. name_length
          /\ Len(player_name_chars) = name_length
          /\ Range(player_name_chars) \subseteq Range(allowed_chars)
          /\ Len(allowed_chars) = 36)
    /\ [][(/\ game_state = "NAME_INPUT"
            /\ Delivered(last')
            /\ NmAction(last'.arg) \in {"LEFT", "RIGHT"})
           => /\ current_focus_index' =
                   (IF NmAction(last'.arg) = "RIGHT"
                    THEN (current_focus_index + 1) % (name_length + 1)
                    ELSE (current_focus_index + name_length) % (name_length + 1))
              /\ UNCHANGED <<player_name_chars, records, append_calls,
                             game_state>>]_vars

(* the button command LEFT took the focus from the first character round   *)
(* to the confirm control                                                  *)
C23_Witness ==
    /\ game_state = "NAME_INPUT"
    /\ last.op = "BUTTON"
    /\ last.arg = "LEFT"
    /\ last.nm = "ACTION_TAKEN"
    /\ current_focus_index = ok_button_index

(* C24: the direction a simulation step applies is never the negation of   *)
(* the direction the step before applied, whatever inputs were accepted in *)
(* between and whatever the mapping; in Playing the pending direction is   *)
(* never the negation of the snake's direction.                            *)
C24_NoReversalBetweenSteps ==
    /\ [](game_state = "PLAYING" => new_direction # VNeg(direction))
    /\ [][StepDone(last')
            => /\ direction' = new_direction
               /\ direction' # VNeg(direction)
               /\ body'[1] = VAdd(body[1], direction')]_vars

(* with a turn already pending since the last step, a button command that  *)
(* asks for the reversal of the snake's direction was rejected             *)
C24_Witness ==
    /\ game_state = "PLAYING"
    /\ last.op = "BUTTON"
    /\ last.res = "rejected"
    /\ SlotOf(last.arg) # 0
    /\ vectors[SlotOf(last.arg)] = VNeg(direction)
    /\ new_direction # direction
    /\ last_input_time > 0

(* C25: a timer event handled in Playing makes one simulation step: the    *)
(* head moves one cell in the pending direction, which becomes the snake's *)
(* direction, and the cells behind it are the old body, less its tail      *)
(* unless a block was pending. An input in Playing never moves the snake;  *)
(* it sets the pending direction to the direction of its slot when it is   *)
(* accepted and leaves it alone otherwise, and the step does not change    *)
(* the pending direction.                                                  *)
C25_OneStepPerTick ==
    [][/\ (last'.op = "SCREEN_UPDATE" /\ game_state = "PLAYING")
          => /\ StepDone(last')
             /\ body'[1] = VAdd(body[1], new_direction)
             /\ direction' = new_direction
             /\ new_direction' = new_direction
             /\ SubSeq(body', 2, Len(body')) =
                  (IF new_block THEN body ELSE SubSeq(body, 1, Len(body) - 1))
       /\ (IsInput(last') /\ game_state = "PLAYING")
          => /\ UNCHANGED <<body, direction, fruit, new_block>>
             /\ new_direction' =
                  (IF Accepted(last') /\ SlotOf(last'.arg) # 0
                   THEN vectors[SlotOf(last'.arg)]
                   ELSE new_direction)]_vars

(* a step applied a turn accepted since the step before *)
C25_Witness ==
    /\ last.op = "SCREEN_UPDATE"
    /\ last.res = "moved"
    /\ last_input_time > 0
    /\ direction \in {VUP, VDOWN}
    /\ body[1] = VAdd(body[2], direction)
    /\ body[2] = VAdd(body[3], VRIGHT)
    /\ eaten = 0

(* C26: a timer event handled in GAME_OVER or NAME_INPUT is skipped: the   *)
(* snake's body and direction, the pending block and direction, the fruit, *)
(* the control mapping and its labels, the tick interval, the name buffer, *)
(* the focus, the sub-machine's score and the store are unchanged, the     *)
(* game state stays what it was and no check ends the loop.                *)
C26_TickOutsidePlayingIsSkipped ==
    [][(last'.op = "SCREEN_UPDATE" /\ game_state \in {"GAME_OVER", "NAME_INPUT"})
          => /\ last'.res = "skipped"
             /\ UNCHANGED <<gameVars, nmVars, dbVars, pc>>]_vars

(* a timer event was skipped in GAME_OVER, the snake lying where it failed *)
C26_Witness ==
    /\ last.op = "SCREEN_UPDATE"
    /\ last.res = "skipped"
    /\ game_state = "GAME_OVER"
    /\ Collided
    /\ ~active

(* C27: the name-capture sub-machine is active exactly when the game state *)
(* is NAME_INPUT, between handlers as well as between loop iterations; an  *)
(* input handled in PLAYING or GAME_OVER finds it inactive and leaves it   *)
(* inactive, and changes neither the buffer, the focus, the entered name   *)
(* nor the store.                                                          *)
C27_ActiveIffNameInput ==
    /\ [](active <=> game_state = "NAME_INPUT")
    /\ [][(IsInput(last') /\ game_state \in {"PLAYING", "GAME_OVER"})
            => /\ ~active /\ ~active'
               /\ UNCHANGED <<player_name_chars, current_focus_index,
                              final_entered_name, dbVars>>]_vars

(* a name was committed: the sub-machine is inactive again in PLAYING, and *)
(* the next iteration has begun                                            *)
C27_Witness ==
    /\ game_state = "PLAYING"
    /\ ~active
    /\ Len(append_calls) = 1
    /\ last.op = "FRAME"
    /\ last_input_time > 0

(* the number of button commands that commit the name from focus f: RIGHT  *)
(* up to the OK button, then UP                                            *)
ButtonsToCommit(f) == (ok_button_index - f) + 1

(* the first time at which the sub-machine takes an input again *)
NmDue == nm_last_input_time + nm_input_delay

(* C28: in every reachable NAME_INPUT state the sub-machine is active, the *)
(* focus is one of its six positions, and one of the four button commands, *)
(* handled once the debounce has run out, either commits the buffer as it  *)
(* is or moves the focus to a position from which fewer commands commit,   *)
(* leaving the sub-machine active; so at most six commands commit. A       *)
(* command is read in every iteration in which no key was accepted and the *)
(* game's own delay has run out. A command handled in NAME_INPUT does what *)
(* handle_input returns for it: on NAME_ENTERED one row with the buffer is *)
(* appended and the state is PLAYING, otherwise the state stays NAME_INPUT *)
(* with the focus and buffer handle_input returned.                        *)
C28_ButtonsCanAlwaysCommit ==
    /\ [](game_state = "NAME_INPUT"
           => /\ active
              /\ current_focus_index \in 0 .. ok_button_index
              /\ \E c \in Commands :
                    LET r == handle_input(c, NmDue)
                    IN \/ /\ r.result = "NAME_ENTERED"
                          /\ r.appended
                          /\ r.final = player_name_chars
                       \/ /\ r.result = "ACTION_TAKEN"
                          /\ r.act
                          /\ r.focus \in 0 .. ok_button_index
                          /\ ButtonsToCommit(r.focus)
                               < ButtonsToCommit(current_focus_index))
    /\ [][(last'.op = "BUTTON" /\ game_state = "NAME_INPUT")
            => /\ last'.res = "not polled"
                    => (processed_action_this_frame \/ ~input_due)
               /\ last'.nm = "NAME_ENTERED"
                    => /\ game_state' = "PLAYING"
                       /\ ~active'
                       /\ append_calls' =
                            Append(append_calls, Row(player_name_chars, current_score))
               /\ last'.nm \notin {"NAME_ENTERED", "-"}
                    => /\ game_state' = "NAME_INPUT"
                       /\ \E skew \in Skews :
                            LET r == handle_input(last'.arg, current_time_ms + skew)
                            IN /\ r.result = last'.nm
                               /\ current_focus_index' = r.focus
                               /\ player_name_chars' = r.chars
                               /\ active' = r.act]_vars

(* a button command on the OK button committed the name and the game is in *)
(* PLAYING again                                                           *)
C28_Witness ==
    /\ last.op = "BUTTON"
    /\ last.arg \in Commands
    /\ last.nm = "NAME_ENTERED"
    /\ game_state = "PLAYING"
    /\ ~active
    /\ current_focus_index = ok_button_index
    /\ Len(append_calls) = 1
    /\ append_calls[1].name = player_name_chars

(* C29: a run in PLAYING ends when the head leaves the grid or meets the   *)
(* body: the head moves one cell per step without wrapping, and no step is *)
(* ever made by a snake whose head is already outside the grid or on its   *)
(* body, so a straight run lasts at most max(cell_number_x, cell_number_y) *)
(* steps and the state between iterations is GAME_OVER or NAME_INPUT once  *)
(* the snake has collided.                                                 *)
C29_StraightRunEnds ==
    /\ []((pc \in {"idle", "exited"} /\ Collided)
            => game_state \in {"GAME_OVER", "NAME_INPUT"})
    /\ [][StepDone(last')
            => /\ ~Collided
               /\ body'[1] = VAdd(body[1], direction')]_vars

(* C30: in every reachable state the label shown for slot i names the      *)
(* direction slot i maps to: "LEFT" for (-1,0), "RIGHT" for (1,0), "UP"    *)
(* for (0,-1), "DOWN" for (0,1); the mapping is a permutation of the four  *)
(* base directions, each of which has exactly one slot and one label; and  *)
(* a step that changes the mapping changes the labels with it.             *)
C30_LabelsMatchMapping ==
    /\ [](/\ DOMAIN directions = DOMAIN vectors
          /\ \A i \in DOMAIN vectors :
                /\ directions[i] = "LEFT" <=> vectors[i] = <<-1, 0>>
                /\ directions[i] = "RIGHT" <=> vectors[i] = <<1, 0>>
                /\ directions[i] = "UP" <=> vectors[i] = <<0, -1>>
                /\ directions[i] = "DOWN" <=> vectors[i] = <<0, 1>>
                /\ directions[i] \in {"LEFT", "RIGHT", "UP", "DOWN"}
          /\ vectors \in shuffle_list(start_vectors))
    /\ [][vectors' # vectors => directions' # directions]_vars

(* a remap installed a mapping in which the first slot no longer means     *)
(* LEFT, and the first label changed with it                               *)
C30_Witness ==
    /\ last.op = "SCREEN_UPDATE"
    /\ last.arg = "remap"
    /\ vectors # start_vectors
    /\ vectors[1] # VLEFT
    /\ directions[1] # "LEFT"

==========================================================================
